---- MODULE Spec2Model ----
(***************************************************************************)
(* Model of the Freqtrade MCP server (src/__main__.py): the symbol         *)
(* handling (_convert_symbol_format, _validate_symbol_in_whitelist, the    *)
(* open-trade resolver that place_trade and close_position embed) and the  *)
(* tools the server registers, each against a remote client whose every    *)
(* call may return or raise.                                               *)
(*                                                                         *)
(* A Python str is a sequence of one-character strings, so that the        *)
(* substring tests ("/USDT:USDT" in symbol), endswith, slicing and         *)
(* str.replace of the source are computed character by character.          *)
(***************************************************************************)
EXTENDS Naturals, Integers, Sequences, FiniteSets, TLC

VARIABLES
    TRADING_MODE,     \* module global TRADING_MODE, fixed at startup
    symbol,           \* the str passed to the function under test
    results,          \* return values of the successive calls, oldest first
    whitelist_response, \* what client.whitelist() does in this run
    current_status,   \* what client.status() does in this run
    client,           \* lifespan_context["client"]: the REST client or None
    request,          \* the tool invocation being served, with its arguments
    remote_calls,     \* the remote calls of the invocation, in order
    returned,         \* what the invocation gave back to the tool boundary
    lifespan          \* where app_lifespan stands, and what it has done

toolVars == <<client, request, remote_calls, returned, lifespan>>

vars == <<TRADING_MODE, symbol, results, whitelist_response, current_status,
          client, request, remote_calls, returned, lifespan>>

----------------------------------------------------------------------------
(* Bounds of the explored inputs.                                          *)

MaxPieces == 5
MaxCandidatePieces == 3
MaxWhitelist == 2
MaxStatus == 2

----------------------------------------------------------------------------
(* Strings.                                                                *)

Chars == {"B", "/", ":", "U", "S", "D", "T"}

\* None, and a value that is not None, for an optional value
Absent == <<>>
Some(x) == <<x>>

USDT == <<"U", "S", "D", "T">>
SlashUSDT == <<"/">> \o USDT
ColonUSDT == <<":">> \o USDT
SlashUSDTColonUSDT == SlashUSDT \o ColonUSDT

\* p in s
Contains(s, p) ==
    \E i \in 0..(Len(s) - Len(p)) : SubSeq(s, i + 1, i + Len(p)) = p

\* s.endswith(p)
EndsWith(s, p) ==
    /\ Len(s) >= Len(p)
    /\ SubSeq(s, Len(s) - Len(p) + 1, Len(s)) = p

\* s.replace(old, new): every non-overlapping occurrence, leftmost first
RECURSIVE Replace(_, _, _)
Replace(s, old, new) ==
    IF Len(s) < Len(old) THEN s
    ELSE IF SubSeq(s, 1, Len(old)) = old
         THEN new \o Replace(SubSeq(s, Len(old) + 1, Len(s)), old, new)
         ELSE <<Head(s)>> \o Replace(Tail(s), old, new)

\* s[:-n]
DropLast(s, n) == IF Len(s) <= n THEN <<>> ELSE SubSeq(s, 1, Len(s) - n)

\* symbol[:-4]
DropLast4(s) == DropLast(s, 4)

----------------------------------------------------------------------------
(* _convert_symbol_format                                                  *)

\* spot keeps the ":USDT" of an already qualified symbol
ConvertKeepsQualifier(s) ==
    IF Contains(s, SlashUSDTColonUSDT)
    THEN s
    ELSE IF Contains(s, SlashUSDT) /\ ~Contains(s, ColonUSDT)
    THEN IF TRADING_MODE = "futures" THEN s \o ColonUSDT ELSE s
    ELSE IF EndsWith(s, USDT) /\ ~Contains(s, <<"/">>) /\ ~Contains(s, <<":">>)
    THEN IF TRADING_MODE = "futures"
         THEN DropLast4(s) \o SlashUSDTColonUSDT
         ELSE DropLast4(s) \o SlashUSDT
    ELSE IF TRADING_MODE = "futures" /\ ~Contains(s, ColonUSDT)
    THEN s \o ColonUSDT
    ELSE s

\* the Bybit branch taken without the test for ':'
ConvertIgnoresColon(s) ==
    IF Contains(s, SlashUSDTColonUSDT)
    THEN IF TRADING_MODE = "spot" THEN Replace(s, ColonUSDT, <<>>) ELSE s
    ELSE IF Contains(s, SlashUSDT) /\ ~Contains(s, ColonUSDT)
    THEN IF TRADING_MODE = "futures" THEN s \o ColonUSDT ELSE s
    ELSE IF EndsWith(s, USDT) /\ ~Contains(s, <<"/">>)
    THEN IF TRADING_MODE = "futures"
         THEN DropLast4(s) \o SlashUSDTColonUSDT
         ELSE DropLast4(s) \o SlashUSDT
    ELSE IF TRADING_MODE = "futures" /\ ~Contains(s, ColonUSDT)
    THEN s \o ColonUSDT
    ELSE s

\* the Bybit branch with the two modes exchanged
ConvertSwappedModes(s) ==
    IF Contains(s, SlashUSDTColonUSDT)
    THEN IF TRADING_MODE = "spot" THEN Replace(s, ColonUSDT, <<>>) ELSE s
    ELSE IF Contains(s, SlashUSDT) /\ ~Contains(s, ColonUSDT)
    THEN IF TRADING_MODE = "futures" THEN s \o ColonUSDT ELSE s
    ELSE IF EndsWith(s, USDT) /\ ~Contains(s, <<"/">>) /\ ~Contains(s, <<":">>)
    THEN IF TRADING_MODE = "futures"
         THEN DropLast4(s) \o SlashUSDT
         ELSE DropLast4(s) \o SlashUSDTColonUSDT
    ELSE IF TRADING_MODE = "futures" /\ ~Contains(s, ColonUSDT)
    THEN s \o ColonUSDT
    ELSE s

_convert_symbol_format(s) ==
    IF Contains(s, SlashUSDTColonUSDT)
    THEN IF TRADING_MODE = "spot" THEN Replace(s, ColonUSDT, <<>>) ELSE s
    ELSE IF Contains(s, SlashUSDT) /\ ~Contains(s, ColonUSDT)
    THEN IF TRADING_MODE = "futures" THEN s \o ColonUSDT ELSE s
    ELSE IF EndsWith(s, USDT) /\ ~Contains(s, <<"/">>) /\ ~Contains(s, <<":">>)
    THEN IF TRADING_MODE = "futures"
         THEN DropLast4(s) \o SlashUSDTColonUSDT
         ELSE DropLast4(s) \o SlashUSDT
    ELSE IF TRADING_MODE = "futures" /\ ~Contains(s, ColonUSDT)
    THEN s \o ColonUSDT
    ELSE s

----------------------------------------------------------------------------
(* Inputs of the normalizer: concatenations of at most MaxPieces pieces.   *)
(* The pieces ":US" and "DT" let a ":USDT" appear only after another one   *)
(* has been removed.                                                       *)

Pieces ==
    { <<"B">>, <<"/">>, <<":">>, USDT, SlashUSDT, ColonUSDT,
      <<":", "U", "S">>, <<"D", "T">> }

RECURSIVE PieceStrings(_)
PieceStrings(k) ==
    IF k = 0 THEN { <<>> }
    ELSE LET shorter == PieceStrings(k - 1)
         IN  shorter \cup { p \o s : p \in Pieces, s \in shorter }

NoResponse == [kind |-> "unused"]

\* no tool invocation: nothing asked, nothing called, nothing returned
NoRequest == [tool |-> "none"]
NoReturn == [kind |-> "none"]

\* a call that was not made
NotCalled == [kind |-> "none"]

\* app_lifespan before the server enters it
NotStarted ==
    [pc |-> "start", at |-> "none", construct |-> NotCalled, ping |-> NotCalled,
     yields |-> <<>>, finalizer |-> 0, raised |-> "none"]

NoTool ==
    /\ client = "None"
    /\ request = NoRequest
    /\ remote_calls = <<>>
    /\ returned = NoReturn
    /\ lifespan = NotStarted

InitNormalize ==
    /\ TRADING_MODE \in {"spot", "futures"}
    /\ symbol \in PieceStrings(MaxPieces)
    /\ results = <<>>
    /\ whitelist_response = NoResponse
    /\ current_status = NoResponse
    /\ NoTool

\* one call of _convert_symbol_format; the second call is given the first
\* call's return value
Convert ==
    /\ Len(results) < 2
    /\ results' = Append(results,
                         _convert_symbol_format(
                             IF results = <<>> THEN symbol ELSE results[Len(results)]))
    /\ UNCHANGED <<TRADING_MODE, symbol, whitelist_response, current_status, toolVars>>

NextNormalize == Convert

SpecNormalize == InitNormalize /\ [][NextNormalize]_vars

----------------------------------------------------------------------------
(* _validate_symbol_in_whitelist                                           *)

\* x in seq, for a Python list
In(x, seq) == \E i \in 1..Len(seq) : seq[i] = x

\* the whitelist the function works with: the "whitelist" entry of a dict
\* response, [] when the call raised or returned anything else
WhitelistOf(response) ==
    IF response.kind = "dict" /\ response.has_whitelist
    THEN response.whitelist
    ELSE <<>>

\* the fallback loop run from the last format to the first
RECURSIVE TryFallbacksReversed(_, _, _, _)
TryFallbacksReversed(fallback_formats, i, whitelist, primary_format) ==
    IF i > Len(fallback_formats) THEN <<primary_format, FALSE>>
    ELSE LET fmt == fallback_formats[Len(fallback_formats) - i + 1]
         IN  IF In(fmt, whitelist) THEN <<fmt, TRUE>>
             ELSE TryFallbacksReversed(fallback_formats, i + 1, whitelist,
                                       primary_format)

\* for fmt in fallback_formats: if fmt in whitelist: return fmt, True
\* and, after the loop, return primary_format, False
RECURSIVE TryFallbacks(_, _, _, _)
TryFallbacks(fallback_formats, i, whitelist, primary_format) ==
    IF i > Len(fallback_formats) THEN <<primary_format, FALSE>>
    ELSE IF In(fallback_formats[i], whitelist) THEN <<fallback_formats[i], TRUE>>
    ELSE TryFallbacks(fallback_formats, i + 1, whitelist, primary_format)

\* the Bybit branch returning the symbol unconverted when there is no
\* whitelist
BybitFormatUnconverted(whitelist, s) ==
    LET base == DropLast4(s)
        primary_format ==
            IF TRADING_MODE = "futures"
            THEN base \o SlashUSDTColonUSDT
            ELSE base \o SlashUSDT
        fallback_formats ==
            IF TRADING_MODE = "futures"
            THEN <<base \o SlashUSDT, base \o USDT \o ColonUSDT>>
            ELSE <<base \o SlashUSDTColonUSDT, base \o USDT \o ColonUSDT>>
    IN  IF whitelist # <<>>
        THEN IF In(primary_format, whitelist)
             THEN <<primary_format, TRUE>>
             ELSE TryFallbacks(fallback_formats, 1, whitelist, primary_format)
        ELSE <<s, TRUE>>

\* the Bybit branch taking the primary format for valid without looking
\* it up
BybitFormatAssumesPrimary(whitelist, s) ==
    <<DropLast4(s) \o (IF TRADING_MODE = "futures"
                       THEN SlashUSDTColonUSDT ELSE SlashUSDT), TRUE>>

\* the branch for Bybit format symbols (no '/', no ':', USDT suffix)
BybitFormat(whitelist, s) ==
    LET base == DropLast4(s)
        primary_format ==
            IF TRADING_MODE = "futures"
            THEN base \o SlashUSDTColonUSDT
            ELSE base \o SlashUSDT
        fallback_formats ==
            IF TRADING_MODE = "futures"
            THEN <<base \o SlashUSDT, base \o USDT \o ColonUSDT>>
            ELSE <<base \o SlashUSDTColonUSDT, base \o USDT \o ColonUSDT>>
    IN  IF whitelist # <<>>
        THEN IF In(primary_format, whitelist)
             THEN <<primary_format, TRUE>>
             ELSE TryFallbacks(fallback_formats, 1, whitelist, primary_format)
        ELSE <<primary_format, TRUE>>

\* the basic conversion reporting every converted symbol valid
BasicConversionAlwaysValid(whitelist, s) ==
    <<_convert_symbol_format(s), TRUE>>

\* the branch for other formats: basic conversion, then membership
BasicConversion(whitelist, s) ==
    LET converted == _convert_symbol_format(s)
    IN  IF whitelist # <<>>
        THEN <<converted, In(converted, whitelist)>>
        ELSE <<converted, TRUE>>

\* the validator without the as-is check
ValidateWithoutAsIs(response, s) ==
    LET whitelist == WhitelistOf(response)
    IN  IF ~Contains(s, <<"/">>) /\ ~Contains(s, <<":">>) /\ EndsWith(s, USDT)
        THEN BybitFormat(whitelist, s)
        ELSE BasicConversion(whitelist, s)

_validate_symbol_in_whitelist(response, s) ==
    LET whitelist == WhitelistOf(response)
    IN  IF whitelist # <<>> /\ In(s, whitelist) THEN <<s, TRUE>>
        ELSE IF ~Contains(s, <<"/">>) /\ ~Contains(s, <<":">>) /\ EndsWith(s, USDT)
        THEN BybitFormat(whitelist, s)
        ELSE BasicConversion(whitelist, s)

(* Inputs of the validator: candidates of at most MaxCandidatePieces pieces *)
(* and whitelists of at most MaxWhitelist pairs.                            *)

CandidatePieces == { <<"B">>, USDT, SlashUSDT, ColonUSDT }

RECURSIVE Candidates(_)
Candidates(k) ==
    IF k = 0 THEN { <<>> }
    ELSE LET shorter == Candidates(k - 1)
         IN  shorter \cup { p \o s : p \in CandidatePieces, s \in shorter }

WhitelistPairs ==
    { <<"B">> \o SlashUSDT, <<"B">> \o SlashUSDTColonUSDT,
      <<"B">> \o USDT \o ColonUSDT, <<"B">> \o USDT, <<"B">> \o ColonUSDT }

RECURSIVE Lists(_, _)
Lists(S, k) ==
    IF k = 0 THEN { <<>> }
    ELSE LET shorter == Lists(S, k - 1)
         IN  shorter \cup { <<x>> \o l : x \in S, l \in shorter }

WhitelistResponses ==
    { [kind |-> "raise"], [kind |-> "other"],
      [kind |-> "dict", has_whitelist |-> FALSE, whitelist |-> <<>>] }
    \cup { [kind |-> "dict", has_whitelist |-> TRUE, whitelist |-> w] :
             w \in Lists(WhitelistPairs, MaxWhitelist) }

InitValidate ==
    /\ TRADING_MODE \in {"spot", "futures"}
    /\ symbol \in Candidates(MaxCandidatePieces)
    /\ results = <<>>
    /\ whitelist_response \in WhitelistResponses
    /\ current_status = NoResponse
    /\ NoTool

\* one call of _validate_symbol_in_whitelist(client, symbol), the client's
\* whitelist() behaving as whitelist_response says
Validate ==
    /\ results = <<>>
    /\ results' = <<_validate_symbol_in_whitelist(whitelist_response, symbol)>>
    /\ UNCHANGED <<TRADING_MODE, symbol, whitelist_response, current_status, toolVars>>

NextValidate == Validate

SpecValidate == InitValidate /\ [][NextValidate]_vars

----------------------------------------------------------------------------
(* The open-trade resolver, as place_trade and as close_position embed it. *)
(* A status response is a list of trades, something that is no list, or an *)
(* exception. A trade that is a dict has a pair (the str that               *)
(* str(t.get("pair") or "") gives, "" when the key is missing), is_open     *)
(* (its truth value) and trade_id (Absent when None or missing); on a trade *)
(* that is no dict t.get raises.                                            *)

\* candidates of place_trade
PlaceTradeCandidates(pair) ==
    {pair}
    \cup (IF ~Contains(pair, ColonUSDT) /\ Contains(pair, USDT)
          THEN {pair \o ColonUSDT} ELSE {})
    \cup (IF EndsWith(pair, ColonUSDT)
          THEN {Replace(pair, ColonUSDT, SlashUSDT)} ELSE {})

\* candidates of close_position
ClosePositionCandidates(pair) ==
    {pair}
    \cup (IF ~Contains(pair, ColonUSDT) /\ Contains(pair, USDT)
          THEN {pair \o ColonUSDT} ELSE {})
    \cup (IF EndsWith(pair, ColonUSDT)
          THEN {Replace(pair, ColonUSDT, SlashUSDT)} ELSE {})

\* the loop of place_trade taking a matching trade whether open or not
RECURSIVE PlaceTradeScanAnyTrade(_, _, _)
PlaceTradeScanAnyTrade(trades, i, candidates) ==
    IF i > Len(trades) THEN Absent
    ELSE IF ~trades[i].is_dict THEN Absent
    ELSE IF trades[i].pair \in candidates
         THEN trades[i].trade_id
         ELSE PlaceTradeScanAnyTrade(trades, i + 1, candidates)

\* the loop of place_trade over current_status, from trade i on; a raising
\* t.get is caught by the except that sets trade_id = None
RECURSIVE PlaceTradeScan(_, _, _)
PlaceTradeScan(trades, i, candidates) ==
    IF i > Len(trades) THEN Absent
    ELSE IF ~trades[i].is_dict THEN Absent
    ELSE IF trades[i].pair \in candidates /\ trades[i].is_open
         THEN trades[i].trade_id
         ELSE PlaceTradeScan(trades, i + 1, candidates)

\* trade_id as place_trade resolves it
PlaceTradeResolve(pair, status) ==
    IF status.kind = "list"
    THEN PlaceTradeScan(status.trades, 1, PlaceTradeCandidates(pair))
    ELSE Absent

\* the loop of close_position going on past an open match without trade_id
RECURSIVE ClosePositionScanPastMissingId(_, _, _)
ClosePositionScanPastMissingId(trades, i, candidates) ==
    IF i > Len(trades) THEN Absent
    ELSE IF ~trades[i].is_dict THEN Absent
    ELSE IF /\ trades[i].is_open /\ trades[i].pair \in candidates
            /\ trades[i].trade_id # Absent
         THEN trades[i].trade_id
         ELSE ClosePositionScanPastMissingId(trades, i + 1, candidates)

\* the loop of close_position over status, from trade i on; a raising t.get
\* leaves trade_id at None
RECURSIVE ClosePositionScan(_, _, _)
ClosePositionScan(trades, i, candidates) ==
    IF i > Len(trades) THEN Absent
    ELSE IF ~trades[i].is_dict THEN Absent
    ELSE IF trades[i].is_open /\ trades[i].pair \in candidates
         THEN trades[i].trade_id
         ELSE ClosePositionScan(trades, i + 1, candidates)

\* trade_id as close_position resolves it
ClosePositionResolve(pair, status) ==
    IF status.kind = "list"
    THEN ClosePositionScan(status.trades, 1, ClosePositionCandidates(pair))
    ELSE Absent

(* Inputs of the resolver.                                                 *)

ClosePairs ==
    { <<"B">> \o SlashUSDTColonUSDT, <<"B">> \o SlashUSDT, <<"B">> \o ColonUSDT,
      <<"B">> \o USDT \o ColonUSDT, <<"B">>, <<>> }

StatusPairs ==
    { <<"B">> \o SlashUSDT, <<"B">> \o SlashUSDTColonUSDT,
      <<"B">> \o SlashUSDT \o SlashUSDT, <<>> }

NotADict == [is_dict |-> FALSE, pair |-> <<>>, is_open |-> FALSE, trade_id |-> Absent]

Trades ==
    [is_dict : {TRUE}, pair : StatusPairs, is_open : BOOLEAN,
     trade_id : {Absent, Some(3), Some(7)}]
    \cup {NotADict}

StatusResponses ==
    { [kind |-> "raise", trades |-> <<>>], [kind |-> "other", trades |-> <<>>] }
    \cup { [kind |-> "list", trades |-> l] : l \in Lists(Trades, MaxStatus) }

InitResolve ==
    /\ TRADING_MODE \in {"spot", "futures"}
    /\ symbol \in ClosePairs
    /\ results = <<>>
    /\ whitelist_response = NoResponse
    /\ current_status \in StatusResponses
    /\ NoTool

\* the resolution block of place_trade on the validated pair
ResolveInPlaceTrade ==
    /\ results = <<>>
    /\ results' = <<[tool |-> "place_trade",
                     trade_id |-> PlaceTradeResolve(symbol, current_status)]>>
    /\ UNCHANGED <<TRADING_MODE, symbol, whitelist_response, current_status, toolVars>>

\* the resolution block of close_position on the validated pair
ResolveInClosePosition ==
    /\ results = <<>>
    /\ results' = <<[tool |-> "close_position",
                     trade_id |-> ClosePositionResolve(symbol, current_status)]>>
    /\ UNCHANGED <<TRADING_MODE, symbol, whitelist_response, current_status, toolVars>>

NextResolve == ResolveInPlaceTrade \/ ResolveInClosePosition

SpecResolve == InitResolve /\ [][NextResolve]_vars

----------------------------------------------------------------------------
(* The tools. A remote call returns a value or raises. What matters of a   *)
(* value or of an exception message is which of the phrases the handlers   *)
(* look for its text holds, in which case.                                 *)

LowerOf ==
    [ph \in {"already open", "Already Open", "forceexit", "invalid argument",
             "Invalid Argument"} |->
        CASE ph = "Already Open" -> "already open"
          [] ph = "Invalid Argument" -> "invalid argument"
          [] OTHER -> ph]

\* the phrases of str(val).lower()
Lower(says) == { LowerOf[ph] : ph \in says }

Returns(says) == [kind |-> "return", says |-> says]
Raises(class, says) == [kind |-> "raise", class |-> class, says |-> says]

\* except (ConnectionError, TimeoutError)
IsConnectivity(outcome) ==
    outcome.kind = "raise" /\ outcome.class \in {"ConnectionError", "TimeoutError"}

NoArgs == [key |-> "none"]

\* one remote call: the method, its arguments, what it did
Call(op, args, outcome) == [op |-> op, args |-> args, outcome |-> outcome]

NoExc == [kind |-> "none"]

\* str({"error": f"{message}: {e}"}), e the exception caught, if any
Error(message, e) == [kind |-> "error", error |-> message, exc |-> e]

NotConnected == Error("Freqtrade client not connected", NoExc)

\* str(response) of a remote payload
Raw(response) == [kind |-> "raw", raw |-> response]

\* one way an invocation can go: its remote calls and what it gives back
Run(calls, payload) == [calls |-> calls, returned |-> payload]

\* what a remote call of a wrapper can do
Outcomes ==
    { Returns({}), Raises("ConnectionError", {}), Raises("TimeoutError", {}),
      Raises("Exception", {}) }

\* the tools that wrap one client method: the method, and the two error
\* messages of the tool
Wrappers ==
    [ fetch_market_data |->
        [op |-> "pair_candles", conn |-> "Connection error fetching market data",
         fail |-> "Failed to fetch market data"],
      fetch_bot_status |->
        [op |-> "status", conn |-> "Connection error fetching bot status",
         fail |-> "Failed to fetch bot status"],
      fetch_profit |->
        [op |-> "profit", conn |-> "Connection error fetching profit",
         fail |-> "Failed to fetch profit"],
      fetch_balance |->
        [op |-> "balance", conn |-> "Connection error fetching balance",
         fail |-> "Failed to fetch balance"],
      fetch_performance |->
        [op |-> "performance", conn |-> "Connection error fetching performance",
         fail |-> "Failed to fetch performance"],
      fetch_whitelist |->
        [op |-> "whitelist", conn |-> "Connection error fetching whitelist",
         fail |-> "Failed to fetch whitelist"],
      fetch_blacklist |->
        [op |-> "blacklist", conn |-> "Connection error fetching blacklist",
         fail |-> "Failed to fetch blacklist"],
      fetch_trades |->
        [op |-> "trades", conn |-> "Connection error fetching trades",
         fail |-> "Failed to fetch trades"],
      fetch_locks |->
        [op |-> "locks", conn |-> "Connection error fetching locks",
         fail |-> "Failed to fetch locks"],
      add_blacklist |->
        [op |-> "add_blacklist", conn |-> "Connection error adding to blacklist",
         fail |-> "Failed to add to blacklist"],
      delete_blacklist |->
        [op |-> "delete_blacklist",
         conn |-> "Connection error removing from blacklist",
         fail |-> "Failed to remove from blacklist"],
      delete_lock |->
        [op |-> "delete_lock", conn |-> "Connection error deleting lock",
         fail |-> "Failed to delete lock"] ]

WrapperTools == DOMAIN Wrappers

ClassifyAllGeneric(w, outcome) ==
    IF outcome.kind = "return" THEN Raw(outcome) ELSE Error(w.fail, outcome)

\* try: return str(client.<op>(...))
\* except (ConnectionError, TimeoutError): ... except Exception: ...
Classify(w, outcome) ==
    IF outcome.kind = "return" THEN Raw(outcome)
    ELSE IF IsConnectivity(outcome) THEN Error(w.conn, outcome)
    ELSE Error(w.fail, outcome)

WrapperRunsWithoutClientCheck(tool) ==
    { Run(<<Call(Wrappers[tool].op, NoArgs, o)>>, Classify(Wrappers[tool], o)) :
        o \in Outcomes }

\* the runs of a wrapper tool
WrapperRuns(tool) ==
    IF client = "None" THEN { Run(<<>>, NotConnected) }
    ELSE { Run(<<Call(Wrappers[tool].op, NoArgs, o)>>, Classify(Wrappers[tool], o)) :
             o \in Outcomes }

\* the methods of FtRestClient that the handlers probe with hasattr
ClientMethods == {"start", "stop", "forceenter", "forceexit"}
HasAttr(method) == method \in ClientMethods

\* start_bot and stop_bot: start/stop, else start_bot/stop_bot, else an error
BotControl ==
    [ start_bot |->
        [first |-> "start", second |-> "start_bot",
         none |-> "No supported 'start' method available on client",
         conn |-> "Connection error starting bot", fail |-> "Failed to start bot"],
      stop_bot |->
        [first |-> "stop", second |-> "stop_bot",
         none |-> "No supported 'stop' method available on client",
         conn |-> "Connection error stopping bot", fail |-> "Failed to stop bot"] ]

BotControlRuns(tool) ==
    LET b == BotControl[tool]
    IN  IF client = "None" THEN { Run(<<>>, NotConnected) }
        ELSE IF HasAttr(b.first)
        THEN { Run(<<Call(b.first, NoArgs, o)>>, Classify(b, o)) : o \in Outcomes }
        ELSE IF HasAttr(b.second)
        THEN { Run(<<Call(b.second, NoArgs, o)>>, Classify(b, o)) : o \in Outcomes }
        ELSE { Run(<<>>, Error(b.none, NoExc)) }

\* get_trading_mode: the configured mode, read from the module global
GetTradingModeRuns ==
    { Run(<<>>, [kind |-> "trading_mode", trading_mode |-> TRADING_MODE,
                 symbol_format |-> IF TRADING_MODE = "futures"
                                   THEN <<"B", "A", "S", "E">> \o SlashUSDTColonUSDT
                                   ELSE <<"B", "A", "S", "E">> \o SlashUSDT]) }

\* what requests.get on /api/v1/show_config can do: an answer with r.ok and
\* a text, another answer, an exception
ShowConfigOutcomes ==
    { [kind |-> "return", says |-> {}, ok |-> TRUE],
      [kind |-> "return", says |-> {}, ok |-> FALSE],
      Raises("ConnectionError", {}), Raises("Exception", {}) }

\* fetch_config: show_config over HTTP, else the status of the client
FetchConfigRuns ==
    IF client = "None" THEN { Run(<<>>, NotConnected) }
    ELSE UNION {
        LET get == Call("requests.get", NoArgs, r)
        IN  IF r.kind = "return" /\ r.ok
            THEN { Run(<<get>>, [kind |-> "text", raw |-> r]) }
            ELSE { Run(<<get, Call("status", NoArgs, o)>>,
                       IF o.kind = "return"
                       THEN [kind |-> "status_fallback", raw |-> o]
                       ELSE IF IsConnectivity(o)
                       THEN Error("Connection error fetching config", o)
                       ELSE Error("Failed to fetch config", o)) : o \in Outcomes }
        : r \in ShowConfigOutcomes }

----------------------------------------------------------------------------
(* place_trade                                                             *)

\* a side argument: one of the words, possibly in upper case, possibly
\* with blanks around it
Side(word, upper, padded) == [word |-> word, upper |-> upper, padded |-> padded]

StripOnly(side) == Side(side.word, side.upper, FALSE)

\* side.strip().lower()
StripLower(side) == Side(side.word, FALSE, FALSE)

Plain(words) == { Side(w, FALSE, FALSE) : w \in words }

open_long_aliases == Plain({"buy", "long", "enter_long"})
open_short_aliases == Plain({"short", "enter_short"})
close_aliases == Plain({"sell", "exit", "close", "exit_long", "exit_short"})

\* a response {"whitelist": n}, n a number other than 0: the name is bound
\* to n, and `symbol in whitelist` raises TypeError
ScalarWhitelist ==
    [kind |-> "scalar", class |-> "TypeError", says |-> {}]

SymbolInWhitelistRaises(response) == response.kind = "scalar"

\* what client.whitelist() can do for a tool
ToolWhitelistResponses ==
    { [kind |-> "raise", class |-> "ConnectionError", says |-> {}],
      [kind |-> "other"],
      ScalarWhitelist }
    \cup { [kind |-> "dict", has_whitelist |-> TRUE, whitelist |-> w] :
             w \in { <<>>,
                     <<(<<"B">> \o SlashUSDTColonUSDT)>>,
                     <<(<<"B">> \o SlashUSDT)>>,
                     <<(<<"B">> \o USDT)>>,
                     <<(<<"B">> \o USDT \o ColonUSDT)>>,
                     <<(<<"B", "B">> \o SlashUSDT)>> } }

\* what client.status() can do for a tool
ToolStatusResponses ==
    { [kind |-> "raise", trades |-> <<>>, class |-> "ConnectionError", says |-> {}],
      [kind |-> "other", trades |-> <<>>],
      [kind |-> "list", trades |-> <<>>],
      [kind |-> "list",
       trades |-> <<[is_dict |-> TRUE, pair |-> <<"B">> \o SlashUSDTColonUSDT,
                     is_open |-> TRUE, trade_id |-> Some(7)]>>],
      [kind |-> "list",
       trades |-> <<[is_dict |-> TRUE, pair |-> <<"B">> \o SlashUSDTColonUSDT,
                     is_open |-> TRUE, trade_id |-> Absent]>>] }

\* what client.forceenter(...) can do
EnterOutcomes ==
    { Returns({}), Returns({"Already Open"}),
      Raises("ConnectionError", {}), Raises("Exception", {"already open"}) }

\* what client.forceexit(...) can do
ExitOutcomes ==
    { Returns({}), Returns({"forceexit", "Invalid Argument"}),
      Returns({"invalid argument"}),
      Raises("ConnectionError", {}),
      Raises("Exception", {"forceexit", "invalid argument"}) }

\* forceexit(tradeid=...), forceexit(pair=...), forceexit(p)
ExitArgs(key, tradeid, pair) ==
    [key |-> key, tradeid |-> tradeid, exit_pair |-> pair]

\* an exception that leaves the handler
Escaped(class) == [kind |-> "raised", class |-> class]

EnterPayloadAutoTagOnly(normalized, pair, price, tag, response) ==
    [kind |-> "enter", status |-> "ok", action |-> "enter",
     side |-> IF normalized \in open_long_aliases THEN "long" ELSE "short",
     pair |-> pair, price |-> price,
     enter_tag |-> IF price # Absent THEN "mcp-limit" ELSE "mcp-market",
     already_open |-> "already open" \in Lower(response.says),
     raw |-> response]

\* the normalized payload of an entry
EnterPayload(normalized, pair, price, tag, response) ==
    [kind |-> "enter", status |-> "ok", action |-> "enter",
     side |-> IF normalized \in open_long_aliases THEN "long" ELSE "short",
     pair |-> pair, price |-> price, enter_tag |-> tag,
     already_open |-> "already open" \in Lower(response.says),
     raw |-> response]

ExitPayloadNoteOnInvalidArgument(pair, response) ==
    [kind |-> "exit", status |-> "ok", action |-> "exit", pair |-> pair,
     note |-> "invalid argument" \in Lower(response.says),
     raw |-> response]

\* the normalized payload of an exit, with the note when the response text
\* holds "forceexit" and "invalid argument"
ExitPayload(pair, response) ==
    [kind |-> "exit", status |-> "ok", action |-> "exit", pair |-> pair,
     note |-> /\ "forceexit" \in Lower(response.says)
              /\ "invalid argument" \in Lower(response.says),
     raw |-> response]

AutoTagSwapped(price) == IF price # Absent THEN "mcp-market" ELSE "mcp-limit"

\* auto_tag: limit when a price was given, market otherwise
AutoTag(price) == IF price # Absent THEN "mcp-limit" ELSE "mcp-market"

\* the entry branch: one forceenter call
PlaceTradeEnterRuns(pair, normalized, price, enter_tag, before) ==
    LET desired_side == IF normalized \in open_long_aliases THEN "long" ELSE "short"
        tag == IF enter_tag # Absent THEN enter_tag[1] ELSE AutoTag(price)
        kwargs == [key |-> "forceenter", pair |-> pair, side |-> desired_side,
                   price |-> price, enter_tag |-> tag]
    IN  IF ~HasAttr("forceenter")
        THEN { Run(before,
                   Error("No supported 'forceenter' method available on client", NoExc)) }
        ELSE { Run(before \o <<Call("forceenter", kwargs, o)>>,
                   IF o.kind = "return"
                   THEN EnterPayload(normalized, pair, price, tag, o)
                   ELSE IF IsConnectivity(o)
                   THEN Error("Connection error placing trade", o)
                   ELSE Error("Failed to place trade", o)) : o \in EnterOutcomes }

FirstExitAlwaysByPair(pair, trade_id) ==
    ExitArgs("pair", Absent,
             Some(IF ~Contains(pair, ColonUSDT) /\ Contains(pair, USDT)
                  THEN pair \o ColonUSDT ELSE pair))

\* the first forceexit: by trade_id when one was resolved, else by exit_pair
FirstExitArgs(pair, trade_id) ==
    IF trade_id # Absent
    THEN ExitArgs("tradeid", trade_id, Absent)
    ELSE ExitArgs("pair", Absent,
                  Some(IF ~Contains(pair, ColonUSDT) /\ Contains(pair, USDT)
                       THEN pair \o ColonUSDT ELSE pair))

PlaceTradeExitRunsWithoutRetry(pair, before) ==
    IF ~HasAttr("forceexit")
    THEN { Run(before,
               Error("No supported 'forceexit' method available on client", NoExc)) }
    ELSE UNION {
        LET first == FirstExitArgs(pair, PlaceTradeResolve(pair, st))
            calls == before \o <<Call("status", NoArgs, st)>>
        IN  { Run(calls \o <<Call("forceexit", first, o1)>>,
                  IF o1.kind = "return" THEN ExitPayload(pair, o1)
                  ELSE Error("Failed to exit position", o1)) : o1 \in ExitOutcomes }
        : st \in ToolStatusResponses }

\* the close branch: status, the trade_id resolution, forceexit by trade_id
\* or by pair and, when that raises, forceexit(pair=pair)
PlaceTradeExitRuns(pair, before) ==
    IF ~HasAttr("forceexit")
    THEN { Run(before,
               Error("No supported 'forceexit' method available on client", NoExc)) }
    ELSE UNION {
        LET trade_id == PlaceTradeResolve(pair, st)
            first == FirstExitArgs(pair, trade_id)
            calls == before \o <<Call("status", NoArgs, st)>>
        IN  UNION {
              IF o1.kind = "return"
              THEN { Run(calls \o <<Call("forceexit", first, o1)>>,
                         ExitPayload(pair, o1)) }
              ELSE { Run(calls \o <<Call("forceexit", first, o1),
                                    Call("forceexit",
                                         ExitArgs("pair", Absent, Some(pair)), o2)>>,
                         IF o2.kind = "return"
                         THEN ExitPayload(pair, o2)
                         ELSE Error("Failed to exit position", o2)) :
                       o2 \in ExitOutcomes }
              : o1 \in ExitOutcomes }
        : st \in ToolStatusResponses }

PlaceTradePriceCheckedOnEntryOnly(pair, normalized, price, enter_tag, before) ==
    IF normalized \notin (open_long_aliases \cup open_short_aliases \cup close_aliases)
    THEN { Run(before, Error("Invalid side", NoExc)) }
    ELSE IF normalized \in open_long_aliases \cup open_short_aliases
    THEN IF price # Absent /\ price[1] <= 0
         THEN { Run(before, Error("price must be greater than 0", NoExc)) }
         ELSE PlaceTradeEnterRuns(pair, normalized, price, enter_tag, before)
    ELSE PlaceTradeExitRuns(pair, before)

\* the side check, the price check and the dispatch on the side
PlaceTradeChecked(pair, normalized, price, enter_tag, before) ==
    IF normalized \notin (open_long_aliases \cup open_short_aliases \cup close_aliases)
    THEN { Run(before, Error("Invalid side", NoExc)) }
    ELSE IF price # Absent /\ price[1] <= 0
    THEN { Run(before, Error("price must be greater than 0", NoExc)) }
    ELSE IF normalized \in open_long_aliases \cup open_short_aliases
    THEN PlaceTradeEnterRuns(pair, normalized, price, enter_tag, before)
    ELSE PlaceTradeExitRuns(pair, before)

\* the runs of place_trade(pair, side, price, enter_tag)
PlaceTradeRuns(pair, side, price, enter_tag) ==
    IF client = "None" THEN { Run(<<>>, NotConnected) }
    ELSE UNION {
        LET before == <<Call("whitelist", NoArgs, wl)>>
        IN  IF SymbolInWhitelistRaises(wl)
            THEN { Run(before, Escaped(wl.class)) }
            ELSE
            LET validated == _validate_symbol_in_whitelist(wl, pair)
            IN  IF ~validated[2]
                THEN { Run(before,
                           [kind |-> "error",
                            error |-> "Symbol not found in Freqtrade whitelist",
                            exc |-> NoExc, original_symbol |-> pair,
                            converted_symbol |-> validated[1],
                            trading_mode |-> TRADING_MODE]) }
                ELSE PlaceTradeChecked(validated[1], StripLower(side), price,
                                       enter_tag, before)
        : wl \in ToolWhitelistResponses }

----------------------------------------------------------------------------
(* close_position                                                          *)

OrdersWithRepeats(S) == [1..Cardinality(S) -> S]

\* list(candidates): the candidates in any order
Orders(S) ==
    { order \in [1..Cardinality(S) -> S] :
        \A i, j \in 1..Cardinality(S) : order[i] = order[j] => i = j }

ClosePayload(trade_id, pair, response) ==
    [kind |-> "close_position", status |-> "ok", action |-> "close_position",
     trade_id |-> trade_id, closed_pair |-> pair, raw |-> response]

\* the pair-based fallback from candidate i on: forceexit(p) for each
\* candidate until one returns
RECURSIVE ClosePositionFallback(_, _, _, _)
ClosePositionFallback(order, i, calls, last_error) ==
    IF i > Len(order)
    THEN { Run(calls,
               Error("Failed to close position. No trade_id found and pair-based exit failed",
                     last_error)) }
    ELSE UNION {
        LET made == calls \o <<Call("forceexit",
                                    ExitArgs("positional", Absent, Some(order[i])), o)>>
        IN  IF o.kind = "return"
            THEN { Run(made, ClosePayload(Absent, Some(order[i]), o)) }
            ELSE ClosePositionFallback(order, i + 1, made, o)
        : o \in ExitOutcomes }

ClosePositionExitsByPairOnly(pair, before) ==
    UNION {
        UNION { ClosePositionFallback(order, 1,
                                      before \o <<Call("status", NoArgs, st)>>, NoExc) :
                  order \in Orders(ClosePositionCandidates(pair)) }
        : st \in ToolStatusResponses }

\* status, the trade_id resolution, then forceexit by trade_id or the
\* pair-based fallback
ClosePositionExits(pair, before) ==
    UNION {
        LET trade_id == ClosePositionResolve(pair, st)
            calls == before \o <<Call("status", NoArgs, st)>>
        IN  IF trade_id # Absent
            THEN { Run(calls \o <<Call("forceexit",
                                       ExitArgs("tradeid", trade_id, Absent), o)>>,
                       IF o.kind = "return"
                       THEN ClosePayload(trade_id, Absent, o)
                       ELSE Error("Failed to close position", o)) :
                     o \in ExitOutcomes }
            ELSE UNION { ClosePositionFallback(order, 1, calls, NoExc) :
                           order \in Orders(ClosePositionCandidates(pair)) }
        : st \in ToolStatusResponses }

\* the runs of close_position(pair)
ClosePositionRuns(pair) ==
    IF client = "None" THEN { Run(<<>>, NotConnected) }
    ELSE UNION {
        LET before == <<Call("whitelist", NoArgs, wl)>>
        IN  IF SymbolInWhitelistRaises(wl)
            THEN { Run(before,
                       Error("Failed to close position", Raises(wl.class, {}))) }
            ELSE ClosePositionExits(_validate_symbol_in_whitelist(wl, pair)[1],
                                    before)
        : wl \in ToolWhitelistResponses }

----------------------------------------------------------------------------
(* The server: app_lifespan yields the context, one tool invocation, of    *)
(* any tool with any arguments, is served under it, and the body ends.     *)

TradePairs ==
    { <<"B">> \o USDT, <<"B">> \o SlashUSDT, <<"B">> \o SlashUSDTColonUSDT, <<"B">> }

Sides ==
    Plain({"buy", "long", "enter_long", "short", "enter_short",
           "sell", "exit", "close", "exit_long", "exit_short", "hold"})
    \cup { Side("buy", TRUE, TRUE), Side("close", TRUE, FALSE),
           Side("short", FALSE, TRUE) }

Prices == { Absent, Some(1), Some(0), Some(-1) }

EnterTags == { Absent, Some("tag") }

\* what FtRestClient(url, username, password) can do
ConstructOutcomes ==
    { [kind |-> "return"], Raises("ConnectionError", {}), Raises("Exception", {}) }

\* what client.ping() can do
PingOutcomes ==
    { [kind |-> "return", value |-> TRUE], [kind |-> "return", value |-> FALSE],
      Raises("ConnectionError", {}), Raises("TimeoutError", {}),
      Raises("Exception", {}) }

\* how the server body under the context can end; CancelledError is a
\* BaseException that is no Exception
BodyOutcomes ==
    { [kind |-> "return"], Raises("ConnectionError", {}), Raises("Exception", {}),
      Raises("CancelledError", {}) }

LifespanContextIgnoresPing(construct, ping) ==
    IF construct.kind = "return" /\ ping.kind = "return"
    THEN "FtRestClient" ELSE "None"

\* the client of the context that app_lifespan yields
LifespanContext(construct, ping) ==
    IF construct.kind = "return" /\ ping.kind = "return" /\ ping.value
    THEN "FtRestClient" ELSE "None"

\* the yield at which the generator is suspended: the one of the try block
\* when construction and ping returned, else the one of an except branch
SuspendedAt(construct, ping) ==
    IF construct.kind = "return" /\ ping.kind = "return" THEN "try" ELSE "except"

\* except (ConnectionError, TimeoutError) or except Exception takes it
CaughtByExcept(outcome) ==
    outcome.kind = "raise" /\ outcome.class # "CancelledError"

Init ==
    /\ TRADING_MODE \in {"spot", "futures"}
    /\ symbol = <<>>
    /\ results = <<>>
    /\ whitelist_response = NoResponse
    /\ current_status = NoResponse
    /\ client = "None"
    /\ request = NoRequest
    /\ remote_calls = <<>>
    /\ returned = NoReturn
    /\ lifespan = NotStarted

\* the server enters the context: app_lifespan runs to its first yield
app_lifespan ==
    /\ lifespan.pc = "start"
    /\ \E construct \in ConstructOutcomes :
         \E ping \in (IF construct.kind = "return" THEN PingOutcomes ELSE {NotCalled}) :
            /\ client' = LifespanContext(construct, ping)
            /\ lifespan' = [pc |-> "yielded",
                            at |-> SuspendedAt(construct, ping),
                            construct |-> construct, ping |-> ping,
                            yields |-> <<LifespanContext(construct, ping)>>,
                            finalizer |-> 0, raised |-> "none"]
    /\ UNCHANGED <<TRADING_MODE, symbol, results, whitelist_response,
                   current_status, request, remote_calls, returned>>

\* the server body ends and the context manager resumes the generator, or
\* throws the body's exception into it at the yield where it is suspended:
\* at the yield of the try block the except branches take an Exception and
\* yield again, and the context manager raises RuntimeError; in every other
\* case the finally block runs and the generator ends.  No invocation is
\* being served any more.
app_lifespan_exit ==
    /\ lifespan.pc = "yielded"
    /\ \E body \in BodyOutcomes :
         lifespan' =
            IF lifespan.at = "try" /\ CaughtByExcept(body)
            THEN [lifespan EXCEPT !.pc = "yielded_again", !.at = "except",
                                  !.yields = Append(@, "None"),
                                  !.raised = "RuntimeError"]
            ELSE [lifespan EXCEPT !.pc = "done", !.finalizer = @ + 1,
                                  !.raised = IF body.kind = "raise"
                                             THEN body.class ELSE "none"]
    /\ request' = NoRequest
    /\ remote_calls' = <<>>
    /\ returned' = NoReturn
    /\ UNCHANGED <<TRADING_MODE, symbol, results, whitelist_response,
                   current_status, client>>

\* the generator left at its second yield is closed, by the context manager
\* or by the collector, if it ever is: GeneratorExit runs the finally block
app_lifespan_aclose ==
    /\ lifespan.pc = "yielded_again"
    /\ lifespan' = [lifespan EXCEPT !.pc = "done", !.finalizer = @ + 1]
    /\ UNCHANGED <<TRADING_MODE, symbol, results, whitelist_response,
                   current_status, client, request, remote_calls, returned>>

\* the handler of the request runs to its return, under the active context
Serve(req, runs) ==
    /\ lifespan.pc = "yielded"
    /\ request = NoRequest
    /\ \E run \in runs :
         /\ request' = req
         /\ remote_calls' = run.calls
         /\ returned' = run.returned
    /\ UNCHANGED <<TRADING_MODE, symbol, results, whitelist_response,
                   current_status, client, lifespan>>

Tool(name) == [tool |-> name]

fetch_market_data == Serve(Tool("fetch_market_data"), WrapperRuns("fetch_market_data"))
fetch_bot_status == Serve(Tool("fetch_bot_status"), WrapperRuns("fetch_bot_status"))
fetch_profit == Serve(Tool("fetch_profit"), WrapperRuns("fetch_profit"))
fetch_balance == Serve(Tool("fetch_balance"), WrapperRuns("fetch_balance"))
fetch_performance == Serve(Tool("fetch_performance"), WrapperRuns("fetch_performance"))
fetch_whitelist == Serve(Tool("fetch_whitelist"), WrapperRuns("fetch_whitelist"))
fetch_blacklist == Serve(Tool("fetch_blacklist"), WrapperRuns("fetch_blacklist"))
fetch_trades == Serve(Tool("fetch_trades"), WrapperRuns("fetch_trades"))
fetch_config == Serve(Tool("fetch_config"), FetchConfigRuns)
get_trading_mode == Serve(Tool("get_trading_mode"), GetTradingModeRuns)
fetch_locks == Serve(Tool("fetch_locks"), WrapperRuns("fetch_locks"))
start_bot == Serve(Tool("start_bot"), BotControlRuns("start_bot"))
stop_bot == Serve(Tool("stop_bot"), BotControlRuns("stop_bot"))
add_blacklist == Serve(Tool("add_blacklist"), WrapperRuns("add_blacklist"))
delete_blacklist == Serve(Tool("delete_blacklist"), WrapperRuns("delete_blacklist"))
delete_lock == Serve(Tool("delete_lock"), WrapperRuns("delete_lock"))

place_trade ==
    \E pair \in TradePairs, side \in Sides, price \in Prices, enter_tag \in EnterTags :
        Serve([tool |-> "place_trade", pair |-> pair, side |-> side,
               price |-> price, enter_tag |-> enter_tag],
              PlaceTradeRuns(pair, side, price, enter_tag))

close_position ==
    \E pair \in TradePairs :
        Serve([tool |-> "close_position", pair |-> pair], ClosePositionRuns(pair))

Next ==
    \/ app_lifespan \/ app_lifespan_exit \/ app_lifespan_aclose
    \/ fetch_market_data \/ fetch_bot_status \/ fetch_profit \/ fetch_balance
    \/ fetch_performance \/ fetch_whitelist \/ fetch_blacklist \/ fetch_trades
    \/ fetch_config \/ get_trading_mode \/ fetch_locks
    \/ place_trade \/ close_position
    \/ start_bot \/ stop_bot
    \/ add_blacklist \/ delete_blacklist \/ delete_lock

Spec == Init /\ [][Next]_vars

----------------------------------------------------------------------------
(* Properties of _convert_symbol_format.                                   *)

Called == Len(results) >= 1

NoSeparator(s) == ~Contains(s, <<"/">>) /\ ~Contains(s, <<":">>)

\* the surface forms BASEUSDT, BASE/USDT and BASE/USDT:USDT, BASE without
\* '/' and ':'
IsBaseQuote(s) == EndsWith(s, USDT) /\ NoSeparator(s)
IsBaseSlashQuote(s) == EndsWith(s, SlashUSDT) /\ NoSeparator(DropLast(s, 5))
IsFuturesQualified(s) ==
    EndsWith(s, SlashUSDTColonUSDT) /\ NoSeparator(DropLast(s, 10))

BaseOf(s) ==
    IF IsFuturesQualified(s) THEN DropLast(s, 10)
    ELSE IF IsBaseSlashQuote(s) THEN DropLast(s, 5)
    ELSE DropLast(s, 4)

\* C1: normalize is idempotent: a second call, given the first call's
\* result, returns that result unchanged, for every input and both modes.
C1_Idempotent ==
    Len(results) = 2 => results[2] = results[1]

\* C2 as stated: in futures mode every input is converted to a string that
\* ends in "/USDT:USDT".
C2_FuturesAlwaysQualified ==
    (Called /\ TRADING_MODE = "futures")
        => EndsWith(results[1], SlashUSDTColonUSDT)

\* the futures inputs whose conversion ends in "/USDT:USDT"
FuturesQualifiable(s) ==
    \/ EndsWith(s, SlashUSDTColonUSDT)
    \/ EndsWith(s, SlashUSDT) /\ ~Contains(s, ColonUSDT)
    \/ EndsWith(s, USDT) /\ NoSeparator(s)

\* C2 amended: in futures mode the result ends in "/USDT:USDT" exactly for
\* the inputs that end in "/USDT:USDT", or end in "/USDT" and hold no
\* ":USDT", or end in "USDT" and hold neither '/' nor ':'; every result
\* holds ":USDT".
C2_FuturesQualifiedForms ==
    (Called /\ TRADING_MODE = "futures")
        => /\ EndsWith(results[1], SlashUSDTColonUSDT) <=> FuturesQualifiable(symbol)
           /\ Contains(results[1], ColonUSDT)

C2_Witness ==
    /\ Called /\ TRADING_MODE = "futures"
    /\ symbol = <<"B">> \o USDT
    /\ results[1] = <<"B">> \o SlashUSDTColonUSDT

RefNormalize(s, m) ==
    LET r12 == Contains(s, SlashUSDTColonUSDT)
        r3  == Contains(s, SlashUSDT) /\ ~Contains(s, ColonUSDT)
        r4  == NoSeparator(s) /\ EndsWith(s, USDT)
    IN  CASE r12 /\ m = "spot" -> Replace(s, ColonUSDT, <<>>)
          [] r12 /\ m = "futures" -> s
          [] ~r12 /\ r3 -> IF m = "spot" THEN s ELSE s \o ColonUSDT
          [] ~r12 /\ ~r3 /\ r4 ->
                DropLast(s, 4) \o (IF m = "spot" THEN SlashUSDT ELSE SlashUSDTColonUSDT)
          [] ~r12 /\ ~r3 /\ ~r4 ->
                IF m = "futures" /\ ~Contains(s, ColonUSDT) THEN s \o ColonUSDT ELSE s

\* C4: the function is total and equals the five rules applied
\* first-match-wins: every call returns a string, the one the rules give.
C4_FiveRules ==
    Called => \A i \in 1..Len(results) :
                /\ results[i] \in Seq(Chars)
                /\ results[i] = RefNormalize(IF i = 1 THEN symbol ELSE results[i - 1],
                                             TRADING_MODE)

\* rule 1 on an input that holds ":USDT" twice
C4_Witness ==
    /\ Called /\ TRADING_MODE = "spot"
    /\ symbol = SlashUSDTColonUSDT \o ColonUSDT
    /\ results[1] = SlashUSDT

----------------------------------------------------------------------------
(* Properties of _validate_symbol_in_whitelist.                            *)

Validated == Len(results) = 1

\* the whitelist the remote served: the list under "whitelist" of a dict
\* response; empty when the fetch raised or gave nothing usable
Fetched ==
    IF whitelist_response.kind \in {"raise", "other"} THEN <<>>
    ELSE IF whitelist_response.has_whitelist THEN whitelist_response.whitelist
    ELSE <<>>

IsBybitForm(s) == NoSeparator(s) /\ EndsWith(s, USDT)

\* C7: when the whitelist fetch raises or yields no usable whitelist, the
\* validator returns (normalize(candidate, mode), true) for every candidate
\* and both modes.
C7_AdvisoryWhenNoWhitelist ==
    (Validated /\ Fetched = <<>>)
        => results[1] = <<_convert_symbol_format(symbol), TRUE>>

\* 'KMNOUSDT' in futures with a failing fetch gives ('KMNO/USDT:USDT', true)
C7_Witness ==
    /\ Validated /\ TRADING_MODE = "futures"
    /\ whitelist_response.kind = "raise"
    /\ symbol = <<"B">> \o USDT
    /\ results[1] = <<(<<"B">> \o SlashUSDTColonUSDT), TRUE>>

\* [primary form of the mode, form of the other mode, BASEUSDT:USDT]
CheckOrder(s, m) ==
    LET base == DropLast(s, 4)
    IN  IF m = "futures"
        THEN <<base \o SlashUSDTColonUSDT, base \o SlashUSDT, s \o ColonUSDT>>
        ELSE <<base \o SlashUSDT, base \o SlashUSDTColonUSDT, s \o ColonUSDT>>

\* C8: a separator-less USDT-suffixed candidate that is not itself in a
\* non-empty whitelist gets the first whitelisted form of the order
\* [primary, other mode, slash-less futures] with true, and (primary, false)
\* when none of the three is whitelisted.
C8_FallbackOrder ==
    (/\ Validated /\ IsBybitForm(symbol)
     /\ Fetched # <<>>
     /\ ~In(symbol, Fetched))
        => LET order == CheckOrder(symbol, TRADING_MODE)
               hits == { i \in 1..3 : In(order[i], Fetched) }
           IN  IF hits = {}
               THEN results[1] = <<order[1], FALSE>>
               ELSE /\ results[1][2] = TRUE
                    /\ \E i \in hits : /\ \A j \in hits : i <= j
                                       /\ results[1][1] = order[i]

\* both fallback forms whitelisted, slash-less one listed first: the
\* other-mode form wins
C8_Witness ==
    /\ Validated /\ TRADING_MODE = "futures"
    /\ symbol = <<"B">> \o USDT
    /\ whitelist_response.kind = "dict"
    /\ Fetched
         = <<(<<"B">> \o USDT \o ColonUSDT), (<<"B">> \o SlashUSDT)>>
    /\ results[1] = <<(<<"B">> \o SlashUSDT), TRUE>>

\* C9: a candidate that appears verbatim in the fetched whitelist is
\* returned unchanged with true, in either mode and whatever its form.
C9_VerbatimMatch ==
    (Validated /\ In(symbol, Fetched))
        => results[1] = <<symbol, TRUE>>

\* a futures-qualified candidate returned unchanged in spot mode
C9_Witness ==
    /\ Validated /\ TRADING_MODE = "spot"
    /\ symbol = <<"B">> \o SlashUSDTColonUSDT
    /\ In(symbol, Fetched)
    /\ results[1] = <<symbol, TRUE>>

\* C10: a candidate that is neither verbatim in the whitelist nor of the
\* separator-less USDT-suffixed form is returned normalized, valid exactly
\* when the whitelist is empty or holds the normalized form.
C10_OtherFormats ==
    (/\ Validated /\ ~IsBybitForm(symbol)
     /\ ~In(symbol, Fetched))
        => LET whitelist == Fetched
               normalized == _convert_symbol_format(symbol)
           IN  /\ results[1][1] = normalized
               /\ results[1][2] <=> (whitelist = <<>> \/ In(normalized, whitelist))

\* the spot form is whitelisted but is not tried for a futures-qualified
\* candidate
C10_Witness ==
    /\ Validated /\ TRADING_MODE = "futures"
    /\ symbol = <<"B">> \o SlashUSDTColonUSDT
    /\ Fetched = <<(<<"B">> \o SlashUSDT)>>
    /\ results[1] = <<symbol, FALSE>>

----------------------------------------------------------------------------
(* Properties of the open-trade resolver.                                  *)

Resolved == Len(results) = 1

\* every trade of the status list is a record with pair, is_open, trade_id
IsRecordList(status) ==
    /\ status.kind = "list"
    /\ \A i \in 1..Len(status.trades) : status.trades[i].is_dict

\* C5: closing a futures-qualified pair BASE/USDT:USDT against a status
\* list whose only record is an open trade on BASE/USDT with trade_id 7
\* resolves trade_id 7, in place_trade and in close_position.
C5_SlashRewrittenVariantMatches ==
    (/\ Resolved
     /\ symbol = <<"B">> \o SlashUSDTColonUSDT
     /\ current_status.kind = "list"
     /\ current_status.trades
          = <<[is_dict |-> TRUE, pair |-> <<"B">> \o SlashUSDT,
               is_open |-> TRUE, trade_id |-> Some(7)]>>)
        => results[1].trade_id = Some(7)

\* the candidate set of the resolver: the pair, its ":USDT"-suffixed
\* variant, its variant with ":USDT" replaced by "/USDT"
RefCandidates(pair) ==
    { c \in {pair, pair \o ColonUSDT, Replace(pair, ColonUSDT, SlashUSDT)} :
        \/ c = pair
        \/ c = pair \o ColonUSDT /\ Contains(pair, USDT) /\ ~Contains(pair, ColonUSDT)
        \/ c = Replace(pair, ColonUSDT, SlashUSDT) /\ EndsWith(pair, ColonUSDT) }

\* C6: on a list of trade records both resolvers return the trade_id of the
\* first record, in list order, whose pair is a candidate and whose is_open
\* is true, and absent when there is none (so never a record that is not
\* open); absent too when the status is no list.
C6_FirstOpenMatch ==
    Resolved =>
        /\ IsRecordList(current_status) =>
             LET trades == current_status.trades
                 hits == { i \in 1..Len(trades) :
                             /\ trades[i].pair \in RefCandidates(symbol)
                             /\ trades[i].is_open }
             IN  IF hits = {}
                 THEN results[1].trade_id = Absent
                 ELSE \E i \in hits : /\ \A j \in hits : i <= j
                                      /\ results[1].trade_id = trades[i].trade_id
        /\ current_status.kind # "list" => results[1].trade_id = Absent

\* a matching record that is not open is passed over for a later open one
C6_Witness ==
    /\ Resolved
    /\ symbol = <<"B">> \o SlashUSDT
    /\ current_status.kind = "list"
    /\ current_status.trades
         = << [is_dict |-> TRUE, pair |-> <<"B">> \o SlashUSDT,
               is_open |-> FALSE, trade_id |-> Some(3)],
              [is_dict |-> TRUE, pair |-> <<"B">> \o SlashUSDTColonUSDT,
               is_open |-> TRUE, trade_id |-> Some(7)] >>
    /\ results[1].trade_id = Some(7)

----------------------------------------------------------------------------
(* Properties of the tools.                                                *)

Invoked == request.tool # "none"

Connected == client # "None"

IsNotConnectedError ==
    returned.kind = "error" /\ returned.error = "Freqtrade client not connected"

Ops == { remote_calls[i].op : i \in 1..Len(remote_calls) }

\* the messages of the connectivity class
ConnectionMessages ==
    { Wrappers[t].conn : t \in WrapperTools }
    \cup { BotControl[t].conn : t \in DOMAIN BotControl }
    \cup { "Connection error fetching config", "Connection error placing trade" }

\* C11 (as stated): with client = None every invocation of every tool
\* returns the not-connected error and makes no remote call.
C11_DisconnectedEveryTool ==
    (Invoked /\ ~Connected) => (IsNotConnectedError /\ remote_calls = <<>>)

\* C11 (amended): with client = None every invocation of a tool other than
\* get_trading_mode returns the not-connected error, get_trading_mode
\* returns the trading-mode payload, and no invocation makes a remote call.
C11_DisconnectedToolsButTradingMode ==
    (Invoked /\ ~Connected) =>
        /\ remote_calls = <<>>
        /\ request.tool # "get_trading_mode" => IsNotConnectedError
        /\ request.tool = "get_trading_mode" =>
             (returned.kind = "trading_mode" /\ returned.trading_mode = TRADING_MODE)

C11_Witness ==
    ~Connected /\ request.tool = "fetch_bot_status" /\ IsNotConnectedError

\* C12: no invocation raises across the tool boundary, whatever the remote
\* client does at each remote call.
C12_NothingRaisesAcrossBoundary ==
    Invoked => returned.kind # "raised"

\* C13: when a remote call of the invocation raised ConnectionError or
\* TimeoutError and the tool returns an error for that exception, the error
\* is of the connectivity class.
C13_ConnectivityClass ==
    ( /\ Invoked
      /\ returned.kind = "error"
      /\ returned.exc.kind = "raise"
      /\ IsConnectivity(returned.exc)
      /\ \E i \in 1..Len(remote_calls) : remote_calls[i].outcome = returned.exc )
    => returned.error \in ConnectionMessages

\* the messages of place_trade's local validation
ValidationMessages ==
    { "Symbol not found in Freqtrade whitelist", "Invalid side",
      "price must be greater than 0" }

RejectedLocally ==
    /\ request.tool = "place_trade"
    /\ returned.kind = "error"
    /\ returned.error \in ValidationMessages

AcceptedWords ==
    { "buy", "long", "enter_long", "short", "enter_short",
      "sell", "exit", "close", "exit_long", "exit_short" }

\* C14 (as stated): when place_trade rejects a call for a local validation
\* failure, no remote call has been attempted in the invocation.
C14_RejectedBeforeAnyRemoteCall ==
    RejectedLocally => remote_calls = <<>>

\* C14 (amended): when place_trade rejects a call for a local validation
\* failure, the only remote call of the invocation is the whitelist fetch
\* of the symbol validation; an invocation whose side is not accepted or
\* whose price is not greater than 0 calls nothing else.
C14_RejectedAfterWhitelistFetchOnly ==
    /\ RejectedLocally =>
         (Len(remote_calls) = 1 /\ remote_calls[1].op = "whitelist")
    /\ ( /\ request.tool = "place_trade"
         /\ \/ request.side.word \notin AcceptedWords
            \/ (request.price # Absent /\ request.price[1] <= 0) )
       => Ops \subseteq {"whitelist"}

C14_Witness ==
    /\ RejectedLocally
    /\ returned.error = "price must be greater than 0"
    /\ request.side.word = "close"
    /\ Len(remote_calls) = 1

ExitCalls == { i \in 1..Len(remote_calls) : remote_calls[i].op = "forceexit" }

\* C15 (as stated): within one invocation each remote operation is called
\* at most once.
C15_EachOperationAtMostOnce ==
    \A i, j \in 1..Len(remote_calls) :
        remote_calls[i].op = remote_calls[j].op => i = j

\* C15 (amended): only forceexit is called again after a failure.  It is
\* called at most twice, by place_trade and close_position only, the second
\* call right after the first raised; place_trade's second call is keyed by
\* pair, close_position's two calls take different candidates; after two
\* failures the error reported is the second one.
C15_OnlyForceExitRepeats ==
    /\ \A i, j \in 1..Len(remote_calls) :
         (i < j /\ remote_calls[i].op = remote_calls[j].op) =>
            /\ remote_calls[i].op = "forceexit"
            /\ request.tool \in {"place_trade", "close_position"}
            /\ j = i + 1
            /\ remote_calls[i].outcome.kind = "raise"
            /\ remote_calls[i].args # remote_calls[j].args \/ request.tool = "place_trade"
            /\ request.tool = "place_trade" => remote_calls[j].args.key = "pair"
            /\ request.tool = "close_position" =>
                 /\ remote_calls[i].args.key = "positional"
                 /\ remote_calls[j].args.key = "positional"
            /\ remote_calls[j].outcome.kind = "raise" =>
                 (returned.kind = "error" /\ returned.exc = remote_calls[j].outcome)
    /\ Cardinality(ExitCalls) <= 2

C15_Witness ==
    /\ request.tool = "place_trade"
    /\ Cardinality(ExitCalls) = 2
    /\ returned.kind = "error"
    /\ returned.error = "Failed to exit position"

\* the messages of the generic class
FailureMessages ==
    { Wrappers[t].fail : t \in WrapperTools }
    \cup { BotControl[t].fail : t \in DOMAIN BotControl }
    \cup { "Failed to fetch config", "Failed to place trade",
           "Failed to exit position", "Failed to close position",
           "Failed to close position. No trade_id found and pair-based exit failed" }

\* pass-through, connectivity failure or generic failure of one remote call
ThreeOutcomes(call) ==
    \/ /\ call.outcome.kind = "return"
       /\ returned.kind = "raw"
       /\ returned.raw = call.outcome
    \/ /\ call.outcome.kind = "raise"
       /\ call.outcome.class \in {"ConnectionError", "TimeoutError"}
       /\ returned.kind = "error"
       /\ returned.error \in ConnectionMessages
       /\ returned.exc = call.outcome
    \/ /\ call.outcome.kind = "raise"
       /\ call.outcome.class \notin {"ConnectionError", "TimeoutError"}
       /\ returned.kind = "error"
       /\ returned.error \in FailureMessages
       /\ returned.exc = call.outcome

SingleCallTools == WrapperTools \cup {"start_bot", "stop_bot"}

\* C16 (as stated): every tool other than place_trade, with a connected
\* client, makes exactly one remote call and ends in one of the three
\* outcomes.
C16_EveryOtherToolOneCall ==
    (Invoked /\ Connected /\ request.tool # "place_trade") =>
        (Len(remote_calls) = 1 /\ ThreeOutcomes(remote_calls[1]))

\* C16 (amended): the twelve single-call wrappers and start_bot/stop_bot,
\* with a connected client, make exactly one remote call and end in one of
\* the three outcomes; get_trading_mode makes none; fetch_config makes the
\* HTTP GET and, unless that returned a non-empty ok response, the status
\* call; close_position makes one to four calls and reports no failure in
\* the connectivity class.
C16_SingleCallWrappers ==
    (Invoked /\ Connected) =>
        /\ request.tool \in SingleCallTools =>
             (Len(remote_calls) = 1 /\ ThreeOutcomes(remote_calls[1]))
        /\ request.tool = "get_trading_mode" =>
             (remote_calls = <<>> /\ returned.kind = "trading_mode")
        /\ request.tool = "fetch_config" =>
             /\ Len(remote_calls) \in {1, 2}
             /\ remote_calls[1].op = "requests.get"
             /\ Len(remote_calls) = 1 <=>
                  (remote_calls[1].outcome.kind = "return" /\ remote_calls[1].outcome.ok)
             /\ Len(remote_calls) = 1 => returned.kind = "text"
             /\ Len(remote_calls) = 2 =>
                  /\ remote_calls[2].op = "status"
                  /\ returned.kind \in {"status_fallback", "error"}
        /\ request.tool = "close_position" =>
             /\ Len(remote_calls) \in 1..4
             /\ returned.kind \in {"close_position", "error"}
             /\ returned.kind = "error" => returned.error \notin ConnectionMessages

C16_Witness ==
    /\ Connected
    /\ request.tool = "fetch_bot_status"
    /\ Len(remote_calls) = 1
    /\ remote_calls[1].outcome.kind = "raise"
    /\ remote_calls[1].outcome.class = "TimeoutError"
    /\ returned.kind = "error"
    /\ returned.error \in ConnectionMessages

LastCall == remote_calls[Len(remote_calls)]

\* the text of the outcome contains the phrase, in any case
SaysCI(outcome, phrase) == \E ph \in outcome.says : LowerOf[ph] = phrase

\* C17 (as stated): when force-exit yields an 'invalid argument' message,
\* place_trade returns an ok exit payload with the note, and when
\* force-enter yields an 'already open' message, an ok enter payload marked
\* already open, whether the message is returned or raised.
C17_QuirksAlwaysSuccess ==
    (request.tool = "place_trade" /\ Len(remote_calls) > 0) =>
        /\ (LastCall.op = "forceexit" /\ SaysCI(LastCall.outcome, "invalid argument")) =>
             (returned.kind = "exit" /\ returned.status = "ok" /\ returned.note)
        /\ (LastCall.op = "forceenter" /\ SaysCI(LastCall.outcome, "already open")) =>
             (returned.kind = "enter" /\ returned.status = "ok" /\ returned.already_open)

\* C17 (amended): only a returned response is pattern-matched.  A returned
\* force-exit response gives an ok exit payload, with the note exactly when
\* its text holds both 'forceexit' and 'invalid argument'; a returned
\* force-enter response gives an ok enter payload, already_open exactly
\* when its text holds 'already open'.  A raised force-enter error gives an
\* error payload; a raised force-exit error is retried once, and the second
\* raise gives the 'Failed to exit position' error.
C17_QuirksInReturnedResponses ==
    (request.tool = "place_trade" /\ Len(remote_calls) > 0) =>
        /\ (LastCall.op = "forceexit" /\ LastCall.outcome.kind = "return") =>
             /\ returned.kind = "exit"
             /\ returned.status = "ok"
             /\ returned.raw = LastCall.outcome
             /\ returned.note <=> /\ SaysCI(LastCall.outcome, "forceexit")
                                  /\ SaysCI(LastCall.outcome, "invalid argument")
        /\ (LastCall.op = "forceenter" /\ LastCall.outcome.kind = "return") =>
             /\ returned.kind = "enter"
             /\ returned.status = "ok"
             /\ returned.raw = LastCall.outcome
             /\ returned.already_open <=> SaysCI(LastCall.outcome, "already open")
        /\ (LastCall.op = "forceenter" /\ LastCall.outcome.kind = "raise") =>
             /\ returned.kind = "error"
             /\ returned.error \in {"Connection error placing trade",
                                    "Failed to place trade"}
        /\ (LastCall.op = "forceexit" /\ LastCall.outcome.kind = "raise") =>
             /\ Cardinality(ExitCalls) = 2
             /\ returned.kind = "error"
             /\ returned.error = "Failed to exit position"

C17_Witness ==
    /\ request.tool = "place_trade"
    /\ returned.kind = "exit"
    /\ returned.note
    /\ SaysCI(returned.raw, "invalid argument")

\* 'KMNOUSDT', 'KMNO/USDT:USDT', 'KMNO/USDT' with base B
Bybit == <<"B">> \o USDT
Futures == <<"B">> \o SlashUSDTColonUSDT

\* place_trade(pair='KMNOUSDT', side='buy') in futures mode, connected
EndToEndEntry ==
    /\ request.tool = "place_trade"
    /\ TRADING_MODE = "futures"
    /\ Connected
    /\ request.pair = Bybit
    /\ request.side = Side("buy", FALSE, FALSE)
    /\ request.price = Absent
    /\ request.enter_tag = Absent

Reachable == \A i \in 1..Len(remote_calls) : remote_calls[i].outcome.kind # "raise"

EnterCalls == { i \in 1..Len(remote_calls) : remote_calls[i].op = "forceenter" }

\* C18 (as stated): the end-to-end entry succeeds with pair
\* 'KMNO/USDT:USDT', side 'long' and enter_tag 'mcp-market' whatever
\* whitelist the remote serves.
C18_EndToEndAnyWhitelist ==
    (EndToEndEntry /\ Reachable) =>
        /\ returned.kind = "enter"
        /\ returned.action = "enter"
        /\ returned.side = "long"
        /\ returned.pair = Futures
        /\ returned.enter_tag = "mcp-market"
        /\ \E i \in EnterCalls :
             /\ remote_calls[i].args.pair = Futures
             /\ remote_calls[i].args.side = "long"

\* the whitelist fetch raised, or gave no list, or an empty list, or a list
\* with 'KMNO/USDT:USDT' and without 'KMNOUSDT'
WhitelistAdmitsFutures(response) ==
    \/ response.kind \in {"raise", "other"}
    \/ /\ response.kind = "dict"
       /\ \/ ~response.has_whitelist
          \/ response.whitelist = <<>>
          \/ /\ \E i \in 1..Len(response.whitelist) : response.whitelist[i] = Futures
             /\ \A i \in 1..Len(response.whitelist) : response.whitelist[i] # Bybit

\* C18 (amended): when the whitelist fetch fails or gives no or an empty
\* list, or the list holds 'KMNO/USDT:USDT' and not 'KMNOUSDT', the
\* end-to-end entry calls forceenter once with pair 'KMNO/USDT:USDT', side
\* 'long', no price and enter_tag 'mcp-market', and, when that call
\* returns, gives the success payload with these values.
C18_EndToEndAdmittedWhitelist ==
    EndToEndEntry =>
        /\ Len(remote_calls) >= 1
        /\ remote_calls[1].op = "whitelist"
        /\ WhitelistAdmitsFutures(remote_calls[1].outcome) =>
             /\ Len(remote_calls) = 2
             /\ remote_calls[2].op = "forceenter"
             /\ remote_calls[2].args.pair = Futures
             /\ remote_calls[2].args.side = "long"
             /\ remote_calls[2].args.price = Absent
             /\ remote_calls[2].args.enter_tag = "mcp-market"
             /\ remote_calls[2].outcome.kind = "raise" => returned.kind = "error"
             /\ remote_calls[2].outcome.kind = "return" =>
                  /\ returned.kind = "enter"
                  /\ returned.status = "ok"
                  /\ returned.action = "enter"
                  /\ returned.side = "long"
                  /\ returned.pair = Futures
                  /\ returned.price = Absent
                  /\ returned.enter_tag = "mcp-market"

C18_Witness ==
    /\ EndToEndEntry
    /\ Reachable
    /\ remote_calls[1].outcome.kind = "dict"
    /\ returned.kind = "enter"
    /\ returned.pair = Futures
    /\ returned.enter_tag = "mcp-market"

\* C19: in the close path of place_trade the first forceexit is keyed by
\* trade_id exactly when the resolver found one, and by pair exactly when
\* it returned absent; the pair-keyed request takes the pair with ':USDT'
\* appended when the pair contains 'USDT' but not ':USDT'.
C19_FirstExitKeyedByResolution ==
    (request.tool = "place_trade" /\ Len(remote_calls) >= 3) =>
        LET pair == _validate_symbol_in_whitelist(remote_calls[1].outcome,
                                                  request.pair)[1]
            trade_id == PlaceTradeResolve(pair, remote_calls[2].outcome)
            first == remote_calls[3]
        IN  /\ remote_calls[2].op = "status"
            /\ first.op = "forceexit"
            /\ first.args.key \in {"tradeid", "pair"}
            /\ first.args.key = "tradeid" <=> trade_id # Absent
            /\ remote_calls[2].outcome.kind # "list" => first.args.key = "pair"
            /\ first.args.key = "tradeid" =>
                 (first.args.tradeid = trade_id /\ first.args.exit_pair = Absent)
            /\ first.args.key = "pair" =>
                 /\ first.args.tradeid = Absent
                 /\ first.args.exit_pair =
                      Some(IF Contains(pair, USDT) /\ ~Contains(pair, ColonUSDT)
                           THEN pair \o ColonUSDT ELSE pair)

C19_Witness ==
    /\ request.tool = "place_trade"
    /\ Len(remote_calls) = 3
    /\ remote_calls[3].op = "forceexit"
    /\ remote_calls[3].args.key = "tradeid"
    /\ remote_calls[3].args.tradeid = Some(7)

LongWords == {"buy", "long", "enter_long"}
ShortWords == {"short", "enter_short"}
CloseWords == {"sell", "exit", "close", "exit_long", "exit_short"}

IsInvalidSideError == returned.kind = "error" /\ returned.error = "Invalid side"

\* C20 (as stated): place_trade dispatches on the stripped, lower-cased
\* side: the long words call forceenter with side 'long', the short words
\* with side 'short', the close words call forceexit only; no invocation
\* calls both, forceenter is called at most once, and any other side
\* returns the 'Invalid side' error with neither called.
C20_DispatchOnSide ==
    request.tool = "place_trade" =>
        /\ request.side.word \in LongWords =>
             \E i \in EnterCalls : remote_calls[i].args.side = "long"
        /\ request.side.word \in ShortWords =>
             \E i \in EnterCalls : remote_calls[i].args.side = "short"
        /\ request.side.word \in CloseWords =>
             (ExitCalls # {} /\ EnterCalls = {})
        /\ ~(EnterCalls # {} /\ ExitCalls # {})
        /\ Cardinality(EnterCalls) <= 1
        /\ request.side.word \notin AcceptedWords =>
             (IsInvalidSideError /\ EnterCalls = {} /\ ExitCalls = {})

\* the invocation got past the client check and the symbol validation
SymbolAdmitted ==
    /\ Connected
    /\ returned.kind # "raised"
    /\ ~(returned.kind = "error"
         /\ returned.error = "Symbol not found in Freqtrade whitelist")

PriceAdmitted == request.price = Absent \/ request.price[1] > 0

\* C20 (amended): once the client check and the symbol validation are
\* passed, any side outside the accepted words returns the 'Invalid side'
\* error; when the price is moreover absent or greater than 0, the long
\* words call forceenter once with side 'long', the short words once with
\* side 'short', and the close words call forceexit and not forceenter.
\* No invocation calls both, none calls forceenter twice, and one that
\* does not pass these checks calls neither.
C20_DispatchOnSideWhenAdmitted ==
    request.tool = "place_trade" =>
        /\ (SymbolAdmitted /\ PriceAdmitted /\ request.side.word \in LongWords) =>
             /\ Cardinality(EnterCalls) = 1
             /\ \A i \in EnterCalls : remote_calls[i].args.side = "long"
        /\ (SymbolAdmitted /\ PriceAdmitted /\ request.side.word \in ShortWords) =>
             /\ Cardinality(EnterCalls) = 1
             /\ \A i \in EnterCalls : remote_calls[i].args.side = "short"
        /\ (SymbolAdmitted /\ PriceAdmitted /\ request.side.word \in CloseWords) =>
             (ExitCalls # {} /\ EnterCalls = {})
        /\ ~(EnterCalls # {} /\ ExitCalls # {})
        /\ Cardinality(EnterCalls) <= 1
        /\ (SymbolAdmitted /\ request.side.word \notin AcceptedWords) => IsInvalidSideError
        /\ ~(SymbolAdmitted /\ PriceAdmitted /\ request.side.word \in AcceptedWords) =>
             (EnterCalls = {} /\ ExitCalls = {})

C20_Witness ==
    /\ request.tool = "place_trade"
    /\ request.side = Side("buy", TRUE, TRUE)
    /\ Cardinality(EnterCalls) = 1
    /\ returned.kind = "enter"
    /\ returned.side = "long"

\* C21: for every close-type side, place_trade invocations that differ only
\* in the price argument make the same remote calls and return the same
\* payload: what this invocation did, against the same remote behaviour,
\* is a run of the invocation with any other price.
C21_PriceIgnoredOnExit ==
    (request.tool = "place_trade" /\ request.side.word \in CloseWords) =>
        \A price \in Prices :
            Run(remote_calls, returned)
                \in PlaceTradeRuns(request.pair, request.side, price,
                                   request.enter_tag)

\* the enter_tag of an entry: the caller's, else by the presence of a price
ExpectedEnterTag ==
    IF request.enter_tag # Absent THEN request.enter_tag[1]
    ELSE IF request.price # Absent THEN "mcp-limit"
    ELSE "mcp-market"

\* C22: on every entry the enter_tag passed to forceenter and reported in
\* the success payload is the caller's when one is given, else 'mcp-limit'
\* with a price and 'mcp-market' without; the price keyword is passed to
\* forceenter exactly when a price was given.
C22_EnterTagAndPrice ==
    request.tool = "place_trade" =>
        /\ \A i \in EnterCalls :
             /\ remote_calls[i].args.enter_tag = ExpectedEnterTag
             /\ remote_calls[i].args.price = request.price
        /\ returned.kind = "enter" =>
             /\ EnterCalls # {}
             /\ returned.enter_tag = ExpectedEnterTag
             /\ returned.price = request.price

C22_Witness ==
    /\ request.tool = "place_trade"
    /\ request.enter_tag = Some("tag")
    /\ request.price = Some(1)
    /\ returned.kind = "enter"
    /\ returned.enter_tag = "tag"

\* the pair that the symbol validation of the invocation hands on
ValidatedPair ==
    _validate_symbol_in_whitelist(remote_calls[1].outcome, request.pair)[1]

\* C23: in the close path of place_trade, when the first forceexit raises,
\* exactly one further call forceexit(pair=<validated pair>) is made; the
\* ok exit payload is returned when either call returns, the 'Failed to
\* exit position' error only when both raise; at most two forceexit calls
\* are made.
C23_ExitRetriedOnce ==
    (request.tool = "place_trade" /\ ExitCalls # {}) =>
        /\ ExitCalls \in {{3}, {3, 4}}
        /\ Len(remote_calls) = Cardinality(ExitCalls) + 2
        /\ ExitCalls = {3, 4} <=> remote_calls[3].outcome.kind = "raise"
        /\ ExitCalls = {3, 4} =>
             remote_calls[4].args = ExitArgs("pair", Absent, Some(ValidatedPair))
        /\ LastCall.outcome.kind = "return" <=>
             (returned.kind = "exit" /\ returned.status = "ok")
        /\ LastCall.outcome.kind = "return" => returned.pair = ValidatedPair
        /\ LastCall.outcome.kind = "raise" <=>
             (returned.kind = "error" /\ returned.error = "Failed to exit position")
        /\ (returned.kind = "error" /\ returned.error = "Failed to exit position") =>
             \A i \in ExitCalls : remote_calls[i].outcome.kind = "raise"

C23_Witness ==
    /\ request.tool = "place_trade"
    /\ ExitCalls = {3, 4}
    /\ remote_calls[3].outcome.kind = "raise"
    /\ remote_calls[4].outcome.kind = "return"
    /\ returned.kind = "exit"

\* C24: close_position resolves the trade_id first: with a trade_id it
\* makes one forceexit(tradeid) call and no pair-keyed call; without one
\* it calls forceexit once per candidate pair, at most two, stopping at the
\* first call that returns; the 'Failed to close position' error is
\* returned only if every forceexit call made failed; a symbol that is not
\* in the whitelist does not stop the close.
C24_TradeIdFirstPairLast ==
    (request.tool = "close_position" /\ Len(remote_calls) >= 2) =>
        LET trade_id == ClosePositionResolve(ValidatedPair, remote_calls[2].outcome)
        IN  /\ remote_calls[2].op = "status"
            /\ ExitCalls = 3..Len(remote_calls)
            /\ ExitCalls # {}
            /\ trade_id # Absent =>
                 /\ ExitCalls = {3}
                 /\ remote_calls[3].args = ExitArgs("tradeid", trade_id, Absent)
            /\ trade_id = Absent =>
                 /\ Cardinality(ExitCalls) <= 2
                 /\ \A i \in ExitCalls :
                      /\ remote_calls[i].args.key = "positional"
                      /\ remote_calls[i].args.exit_pair # Absent
                      /\ remote_calls[i].args.exit_pair[1]
                           \in ClosePositionCandidates(ValidatedPair)
                      /\ i < Len(remote_calls) => remote_calls[i].outcome.kind = "raise"
                 /\ \A i, j \in ExitCalls :
                      remote_calls[i].args = remote_calls[j].args => i = j
                 /\ LastCall.outcome.kind = "raise" =>
                      Cardinality(ExitCalls)
                          = Cardinality(ClosePositionCandidates(ValidatedPair))
            /\ LastCall.outcome.kind = "return" <=> returned.kind = "close_position"
            /\ returned.kind = "error" <=>
                 \A i \in ExitCalls : remote_calls[i].outcome.kind = "raise"

\* the whitelist is not empty and the validated pair is not in it, and the
\* close went on to the pair-based exit
C24_Witness ==
    /\ request.tool = "close_position"
    /\ Len(remote_calls) = 4
    /\ remote_calls[1].outcome.kind = "dict"
    /\ remote_calls[1].outcome.whitelist # <<>>
    /\ \A i \in 1..Len(remote_calls[1].outcome.whitelist) :
         remote_calls[1].outcome.whitelist[i] # ValidatedPair
    /\ remote_calls[4].outcome.kind = "return"
    /\ returned.kind = "close_position"

C28_YieldsOnce ==
    /\ Len(lifespan.yields) <= 1
    /\ lifespan.finalizer <= 1
    /\ lifespan.pc = "done" => (Len(lifespan.yields) = 1 /\ lifespan.finalizer = 1)

\* the whitelist fetched by the invocation is a non-empty list
FetchedNonEmptyWhitelist ==
    /\ request.tool \in {"place_trade", "close_position"}
    /\ Len(remote_calls) >= 1
    /\ remote_calls[1].outcome.kind = "dict"
    /\ remote_calls[1].outcome.has_whitelist
    /\ remote_calls[1].outcome.whitelist # <<>>

IsWhitelisted(pair) ==
    \E i \in 1..Len(remote_calls[1].outcome.whitelist) :
        remote_calls[1].outcome.whitelist[i] = pair

\* C26: when _validate_symbol_in_whitelist returns isValid = true with a
\* non-empty fetched whitelist, the symbol it returns is a member of that
\* whitelist; hence with a non-empty whitelist every pair that place_trade
\* passes to forceenter is a whitelist member.
C26_ValidIsWhitelisted ==
    FetchedNonEmptyWhitelist =>
        LET validated == _validate_symbol_in_whitelist(remote_calls[1].outcome,
                                                       request.pair)
        IN  /\ validated[2] => IsWhitelisted(validated[1])
            /\ \A i \in EnterCalls : IsWhitelisted(remote_calls[i].args.pair)

C26_Witness ==
    /\ FetchedNonEmptyWhitelist
    /\ request.tool = "place_trade"
    /\ request.pair = Bybit
    /\ EnterCalls # {}
    /\ \A i \in EnterCalls : remote_calls[i].args.pair = <<"B">> \o SlashUSDT
    /\ TRADING_MODE = "futures"

\* C27: the two copies of the resolver agree: on every pair and every
\* status response, the trade_id that one copy resolves is the trade_id
\* that the other copy resolves, with the same candidate set.
C27_ResolversAgree ==
    /\ PlaceTradeCandidates(symbol) = ClosePositionCandidates(symbol)
    /\ Resolved =>
         results[1].trade_id =
            IF results[1].tool = "place_trade"
            THEN ClosePositionResolve(symbol, current_status)
            ELSE PlaceTradeResolve(symbol, current_status)

\* an open matching record without trade_id comes before one with a
\* trade_id: both copies stop at the first and resolve nothing
C27_Witness ==
    /\ Resolved
    /\ results[1].tool = "close_position"
    /\ symbol = <<"B">> \o SlashUSDT
    /\ current_status.kind = "list"
    /\ current_status.trades
         = << [is_dict |-> TRUE, pair |-> <<"B">> \o SlashUSDT,
               is_open |-> TRUE, trade_id |-> Absent],
              [is_dict |-> TRUE, pair |-> <<"B">> \o SlashUSDTColonUSDT,
               is_open |-> TRUE, trade_id |-> Some(7)] >>
    /\ results[1].trade_id = Absent

====
